---- MODULE Spec2Model ----
(***************************************************************************)
(* State-machine model of the WhatsApp gateway of src/server.js (second    *)
(* revision, lines 747-2298): the session lifecycle (initializeWhatsApp    *)
(* and its connection.update / CB:xmlstreamend handlers, the reconnect     *)
(* timers), the outbound dispatch handlers (text, location, buttons, bulk,  *)
(* album, catalog), the control handlers (health, status, qr, pair,        *)
(* logout) and the two formatting functions (formatWhatsAppId, the pairing *)
(* code of POST /api/pair).                                                *)
(*                                                                         *)
(* Transport instances carry no identity in the code beyond the global     *)
(* reference `sock`; the model keeps the phase of the current instance in  *)
(* `sock` and counts the replaced instances that were never closed in      *)
(* `stale` (their event handlers stay registered and share the globals).   *)
(***************************************************************************)
EXTENDS Integers, Sequences, FiniteSets, TLC

\* ---------------------------------------------------------------- bounds
MaxStale == 1         \* replaced-but-still-live Transport instances
MaxPending == 2       \* pending timers plus initializations in flight
NumQr == 1            \* distinct QR values the Transport may emit
MaxItems == 2         \* longest batch (bulk recipients / album items)
MaxLen == 3           \* longest raw identifier given to formatWhatsAppId
MaxCode == 8          \* longest raw pairing code

\* ----------------------------------------------------- program constants
maxReconnectAttempts == 5
backoffBase == 1000
backoffCap == 30000
retryDelay == 5000
loggedOut == 401      \* DisconnectReason.loggedOut
connectionLost == 408 \* a close reason other than loggedOut

VARIABLES
  sock,               \* phase of the current instance: "null" while sock is null
  stale,              \* [phase -> number of replaced instances still live]
  qr,                 \* 0 is null, else the last QR value received
  isConnected,
  connectionState,
  reconnectAttempts,
  timers,             \* number of pending setTimeout callbacks
  inits,              \* initializeWhatsApp calls suspended before makeWASocket
  listening,          \* app.listen was reached (startServer)
  last,               \* history: kind of the step taken last, delay it passed to setTimeout
  closeStreak,        \* history: consecutive Transient closes since 'open'
  op, pc, n, bad, fieldsOk, i, results, errors, pauses, log, sendOpen, resp,
  body,               \* the fields of a single-item intent, by class of value
  fn, arg, out        \* a formatting function, its argument, its successive results

sessionVars == <<sock, stale, qr, isConnected, connectionState,
                 reconnectAttempts, timers, inits, listening>>
historyVars == <<last, closeStreak>>
formatVars == <<fn, arg, out>>
requestVars == <<op, pc, n, bad, fieldsOk, i, results, errors, pauses, log,
                 sendOpen, resp, body>>
vars == <<sock, stale, qr, isConnected, connectionState, reconnectAttempts,
          timers, inits, listening, last, closeStreak,
          op, pc, n, bad, fieldsOk, i, results, errors, pauses, log, sendOpen, resp,
          body, fn, arg, out>>

\* ---------------------------------------------------------------- helpers
RECURSIVE Pow2(_)
Pow2(k) == IF k = 0 THEN 1 ELSE 2 * Pow2(k - 1)

Min(a, b) == IF a < b THEN a ELSE b

LivePhases == {"connecting", "open"}

NoStale == [p \in LivePhases |-> 0]

StaleCount == stale["connecting"] + stale["open"]

Pending == timers + inits

\* variant: the limit test is off by one
willReconnectOffByOne(reason, attempts) ==
  reason # loggedOut /\ attempts <= maxReconnectAttempts

\* variant: the close reason is not looked at
willReconnectAnyReason(reason, attempts) == attempts < maxReconnectAttempts

\* --------------------------------------- connection.update, close branch
\* shouldReconnect && reconnectAttempts < maxReconnectAttempts
willReconnect(reason, attempts) ==
  reason # loggedOut /\ attempts < maxReconnectAttempts

\* Math.min(1000 * Math.pow(2, reconnectAttempts), 30000), evaluated after
\* reconnectAttempts++ : `attempts` is the incremented counter.
backoffDelay(attempts) == Min(backoffBase * Pow2(attempts), backoffCap)

\* the counter after one connection.update
attemptsAfter(connection, reason, attempts) ==
  IF connection = "close"
    THEN IF willReconnect(reason, attempts) THEN attempts + 1 ELSE attempts
    ELSE IF connection = "open" THEN 0 ELSE attempts

\* variant: 'open' leaves the pending QR in place
qrAfterKept(connection, newQr, q) == IF newQr # 0 THEN newQr ELSE q

\* qr after one connection.update: set from newQr first, cleared by 'open'
qrAfter(connection, newQr, q) ==
  IF connection = "open" THEN 0 ELSE IF newQr # 0 THEN newQr ELSE q

connectedAfter(connection, c) ==
  IF connection = "close" THEN FALSE ELSE IF connection = "open" THEN TRUE ELSE c

stateAfter(connection, s) ==
  CASE connection = "close" -> "disconnected"
    [] connection = "open" -> "connected"
    [] connection = "connecting" -> "connecting"
    [] OTHER -> s

\* the phase of the emitting instance after the update
phaseAfter(connection, p) ==
  CASE connection = "close" -> "closed"
    [] connection = "open" -> "open"
    [] OTHER -> p

\* the updates an instance in phase p can emit
Updates(p) ==
  IF p = "connecting"
    THEN {u \in [connection : {"none", "connecting", "open", "close"},
                 newQr : 0..NumQr, reason : {loggedOut, connectionLost}] :
            /\ (u.connection = "none" => u.newQr # 0)
            /\ (u.connection # "close" => u.reason = connectionLost)}
    ELSE IF p = "open"
      THEN [connection : {"close"}, newQr : {0},
            reason : {loggedOut, connectionLost}]
      ELSE {}

\* variant: the close branch counts the attempt but sets no timer
scheduledForgotten(connection, reason, attempts) == {}

\* the delays the close branch passes to setTimeout: one, or none
scheduled(connection, reason, attempts) ==
  IF connection = "close" /\ willReconnect(reason, attempts)
    THEN {backoffDelay(attemptsAfter(connection, reason, attempts))}
    ELSE {}

\* the globals after the connection.update handler ran on update u
HandleUpdate(u) ==
  /\ qr' = qrAfter(u.connection, u.newQr, qr)
  /\ reconnectAttempts' = attemptsAfter(u.connection, u.reason, reconnectAttempts)
  /\ timers' = timers +
       Cardinality(scheduled(u.connection, u.reason, reconnectAttempts))
  /\ isConnected' = connectedAfter(u.connection, isConnected)
  /\ connectionState' = stateAfter(u.connection, connectionState)
  /\ timers' + inits <= MaxPending

\* connection.update emitted by the current instance
CurrentEmits(u) ==
  /\ u \in Updates(sock)
  /\ HandleUpdate(u)
  /\ sock' = phaseAfter(u.connection, sock)
  /\ UNCHANGED <<stale, inits, listening>>

\* connection.update emitted by a replaced instance that is still live
StaleEmits(p, u) ==
  /\ stale[p] > 0
  /\ u \in Updates(p)
  /\ HandleUpdate(u)
  /\ stale' = LET q == phaseAfter(u.connection, p)
                  less == [stale EXCEPT ![p] = @ - 1]
              IN IF q = "closed" THEN less ELSE [less EXCEPT ![q] = @ + 1]
  /\ UNCHANGED <<sock, inits, listening>>

\* CB:xmlstreamend of any live instance: if (isConnected) initializeWhatsApp()
OnStreamEnd ==
  /\ sock \in LivePhases \/ StaleCount > 0
  /\ isConnected
  /\ Pending < MaxPending
  /\ inits' = inits + 1
  /\ UNCHANGED <<sock, stale, qr, isConnected, connectionState,
                 reconnectAttempts, timers, listening>>

\* a setTimeout callback runs: initializeWhatsApp() is entered
OnTimer ==
  /\ timers > 0
  /\ timers' = timers - 1
  /\ inits' = inits + 1
  /\ UNCHANGED <<sock, stale, qr, isConnected, connectionState,
                 reconnectAttempts, listening>>

\* initializeWhatsApp reaches sock = makeWASocket(...): the new instance
\* replaces the reference; the replaced instance is not ended
initializeWhatsAppOk ==
  /\ inits > 0
  /\ sock \in LivePhases => StaleCount < MaxStale
  /\ inits' = inits - 1
  /\ sock' = "connecting"
  /\ stale' = IF sock \in LivePhases THEN [stale EXCEPT ![sock] = @ + 1] ELSE stale
  /\ listening' = TRUE
  /\ UNCHANGED <<qr, isConnected, connectionState, reconnectAttempts, timers>>

\* variant: the catch branch compares with <=
willRetryOffByOne(attempts) == attempts <= maxReconnectAttempts

\* the catch branch retries while reconnectAttempts < maxReconnectAttempts
willRetry(attempts) == attempts < maxReconnectAttempts

\* initializeWhatsApp throws before makeWASocket returned: the catch branch
initializeWhatsAppFail ==
  /\ inits > 0
  /\ inits' = inits - 1
  /\ IF willRetry(reconnectAttempts)
       THEN /\ reconnectAttempts' = reconnectAttempts + 1
            /\ timers' = timers + 1
       ELSE UNCHANGED <<reconnectAttempts, timers>>
  /\ listening' = TRUE
  /\ UNCHANGED <<sock, stale, qr, isConnected, connectionState>>

\* ----------------------------------------------------- formatWhatsAppId
\* A string is the sequence of its characters; null is a value of its own.
null == <<"null">>

Digits == {"0", "1", "2", "3", "4", "5", "6", "7", "8", "9"}

\* '@s.whatsapp.net'
suffix ==
  <<"@", "s", ".", "w", "h", "a", "t", "s", "a", "p", "p", ".", "n", "e", "t">>

\* [^\d@:] : the characters id.replace(..., '') removes
Removed(c) == c \notin Digits \cup {"@", ":"}

\* id.replace(/[^\d@:]/g, '')
replace(id) == SelectSeq(id, LAMBDA c : ~Removed(c))

\* cleanId.includes('@')
includes(str, c) == \E k \in 1..Len(str) : str[k] = c

\* variant: the suffix is appended whatever cleanId holds
formatWhatsAppIdAlways(id) ==
  IF id = null \/ id = <<>> THEN null ELSE replace(id) \o suffix

formatWhatsAppId(id) ==
  IF id = null \/ id = <<>>
    THEN null
    ELSE LET cleanId == replace(id)
         IN IF ~includes(cleanId, "@") THEN cleanId \o suffix ELSE cleanId

\* ------------------------------------- POST /api/pair, the code's format
\* code.match(/.{1,4}/g): the consecutive groups of up to four characters
\* (null, here <<>>, for the empty string); no character of a code is a
\* line terminator
RECURSIVE match(_)
match(code) ==
  IF Len(code) = 0 THEN <<>>
  ELSE IF Len(code) <= 4 THEN <<code>>
  ELSE <<SubSeq(code, 1, 4)>> \o match(SubSeq(code, 5, Len(code)))

\* groups.join('-')
RECURSIVE join(_)
join(groups) ==
  IF Len(groups) = 0 THEN <<>>
  ELSE IF Len(groups) = 1 THEN groups[1]
  ELSE groups[1] \o <<"-">> \o join(Tail(groups))

\* variant: the code is handed back as received
pairingCodeRaw(code) == code

\* code?.match(/.{1,4}/g)?.join('-') || code
pairingCode(code) ==
  IF code = null \/ match(code) = <<>> \/ join(match(code)) = <<>>
    THEN code
    ELSE join(match(code))

\* ------------------------------------------------------- history variables
\* "closeTransient" is a Transient close that scheduled a reconnect,
\* "closeExhausted" one handled with the counter at the maximum
EventKind(u) ==
  CASE u.connection = "close" /\ u.reason = loggedOut -> "closeLoggedOut"
    [] u.connection = "close" /\ u.reason # loggedOut ->
         IF reconnectAttempts < maxReconnectAttempts
           THEN "closeTransient" ELSE "closeExhausted"
    [] u.connection = "open" -> "open"
    [] u.connection = "connecting" -> "connecting"
    [] OTHER -> "qr"

StreakAfter(kind, k) ==
  CASE kind \in {"closeTransient", "closeExhausted"} ->
         Min(k + 1, maxReconnectAttempts)
    [] kind \in {"closeLoggedOut", "open", "logout"} -> 0
    [] OTHER -> k

Observe(kind, delays) ==
  /\ last' = [ev |-> kind, delays |-> delays]
  /\ closeStreak' = StreakAfter(kind, closeStreak)

\* ------------------------------------------- session lifecycle, observed
ConnectionUpdate ==
  \E u \in Updates(sock) :
    /\ CurrentEmits(u)
    /\ Observe(EventKind(u), scheduled(u.connection, u.reason, reconnectAttempts))
    /\ UNCHANGED <<requestVars, formatVars>>

StaleConnectionUpdate ==
  \E p \in LivePhases : \E u \in Updates(p) :
    /\ StaleEmits(p, u)
    /\ Observe(EventKind(u), scheduled(u.connection, u.reason, reconnectAttempts))
    /\ UNCHANGED <<requestVars, formatVars>>

StreamEnd == OnStreamEnd /\ Observe("streamEnd", {}) /\ UNCHANGED <<requestVars, formatVars>>

TimerFire == OnTimer /\ Observe("timer", {}) /\ UNCHANGED <<requestVars, formatVars>>

InitOk == initializeWhatsAppOk /\ Observe("initOk", {}) /\ UNCHANGED <<requestVars, formatVars>>

InitFail ==
  /\ initializeWhatsAppFail
  /\ Observe("initFail", IF willRetry(reconnectAttempts) THEN {retryDelay} ELSE {})
  /\ UNCHANGED <<requestVars, formatVars>>

\* ------------------------------------------------------ outbound dispatch
albumCap == 10

Ops == {"text", "bulk", "album"}

\* variant: the text handler records a failure and carries on, as a loop does
SingleOpsLoopingText == {"location", "buttons"}

\* handlers that compose one payload and submit it once
SingleOps == {"text", "location", "buttons"}

\* classes of the value of a JSON field: "absent" is undefined, null or '',
\* "zero" the number 0, "numeric" a number or numeric string other than
\* that, "text" a string parseFloat turns into NaN
CoordKinds == {"absent", "zero", "numeric", "text"}

\* "longList" is a button array longer than the client displays
ButtonKinds == {"absent", "list", "longList"}

NoBody == [to |-> "raw", lat |-> "none", lon |-> "none", buttons |-> "none"]

Bodies(o) ==
  IF o = "location"
    THEN [to : {"absent", "raw"}, lat : CoordKinds, lon : CoordKinds,
          buttons : {"none"}]
    ELSE [to : {"absent", "raw"}, lat : {"none"}, lon : {"none"},
          buttons : ButtonKinds]

\* !v of JavaScript on a field value
Falsy(v) == v \in {"absent", "zero"}

\* result.key.id of the receipt of the j-th submission of a request
receiptOf(j) == j

\* error.message of the error the j-th submission of a request threw
reasonOf(j) == j

\* the answer of a handler: messageId is result.key.id, fallbackReason and
\* detail are the error.message values the body carries (0: none);
\* connected, state, hasQR and qr are the fields of the status, health and
\* QR answers
NoResp ==
  [status |-> 0, error |-> "", sent |-> 0, failed |-> 0, success |-> FALSE,
   messageId |-> 0, fallbackReason |-> 0, detail |-> 0,
   connected |-> FALSE, state |-> "", hasQR |-> FALSE, qr |-> 0]

Reject(code, tag) ==
  [status |-> code, error |-> tag, sent |-> 0, failed |-> 0, success |-> FALSE,
   messageId |-> 0, fallbackReason |-> 0, detail |-> 0,
   connected |-> FALSE, state |-> "", hasQR |-> FALSE, qr |-> 0]

\* res.json({success: true, messageId: result.key.id, ...}) of one message
Accepted(id, why) ==
  [status |-> 200, error |-> "", sent |-> 1, failed |-> 0, success |-> TRUE,
   messageId |-> id, fallbackReason |-> why, detail |-> 0,
   connected |-> FALSE, state |-> "", hasQR |-> FALSE, qr |-> 0]

\* res.json({success: true}) of a handler that sent no message
Done200 ==
  [status |-> 200, error |-> "", sent |-> 0, failed |-> 0, success |-> TRUE,
   messageId |-> 0, fallbackReason |-> 0, detail |-> 0,
   connected |-> FALSE, state |-> "", hasQR |-> FALSE, qr |-> 0]

CountStatus(rs, st) == Cardinality({k \in 1..Len(rs) : rs[k].status = st})

\* variant: any failed item turns the whole response into an error
AggregateFailing(o, rs, es) ==
  IF Len(es) + CountStatus(rs, "failed") > 0
    THEN Reject(500, "SendFailed")
    ELSE [Done200 EXCEPT !.sent = CountStatus(rs, "sent")]

\* res.json of the aggregate: bulk counts its two lists, album filters one
Aggregate(o, rs, es) ==
  IF o = "bulk"
    THEN [Done200 EXCEPT !.sent = Len(rs), !.failed = Len(es)]
    ELSE [Done200 EXCEPT !.sent = CountStatus(rs, "sent"),
                         !.failed = CountStatus(rs, "failed"),
                         !.success = CountStatus(rs, "sent") > 0]

\* variant: the handler has no connectivity gate
gateOpenAlways(connected) == TRUE

\* if (!isConnected) return res.status(400)... : first statement of every
\* /api/send/* handler
gateOpen(connected) == connected

\* variant: the album handler has no item cap
validateNoCap(o, len, ok) ==
  CASE o = "text" -> IF ok THEN "" ELSE "InvalidIntent"
    [] o = "bulk" -> IF len = 0 \/ ~ok THEN "InvalidIntent" ELSE ""
    [] o = "album" -> IF ~ok \/ len = 0 THEN "InvalidIntent" ELSE ""

\* request validation after the gate, before the loop / the submission
validate(o, len, ok) ==
  CASE o = "text" -> IF ok THEN "" ELSE "InvalidIntent"
    [] o = "bulk" -> IF len = 0 \/ ~ok THEN "InvalidIntent" ELSE ""
    [] o = "album" -> IF ~ok \/ len = 0 THEN "InvalidIntent"
                      ELSE IF len > albumCap THEN "BatchTooLarge" ELSE ""

\* if (!to || !latitude || !longitude) / if (!to || !buttons): the only
\* checks of the location and the button handlers
validateIntent(o, b) ==
  IF o = "location"
    THEN IF Falsy(b.to) \/ Falsy(b.lat) \/ Falsy(b.lon)
           THEN "InvalidIntent" ELSE ""
    ELSE IF Falsy(b.to) \/ Falsy(b.buttons) THEN "InvalidIntent" ELSE ""

\* if (i < recipients.length - 1) with the 0-based index; k is 1-based
pauseAfter(k, len) == k < len

\* results.push({... status: 'sent'}) after the receipt of item k
pushSent(list, k) == Append(list, [index |-> k, status |-> "sent"])

\* variant: the catch swallows the failure without recording it
pushErrorDropped(list, k) == list

\* the per-item catch: errors.push (bulk) / results.push failed (album)
pushError(list, k) == Append(list, [index |-> k, status |-> "failed"])

\* the index the loop takes up after item k (i++)
nextIndex(k) == k + 1

\* variant: the first two items are taken in the wrong order
SubmissionSwapped(o, k, b) ==
  [index |-> IF k = 1 THEN 2 ELSE IF k = 2 THEN 1 ELSE k,
   to |-> IF o = "bulk" /\ k = b THEN "null" ELSE "jid", kind |-> o,
   outcome |-> "pending"]

\* the call sock.sendMessage(...) for item k: what reaches the Transport
\* (a null bulk recipient is formatted to null and passed on)
Submission(o, k, b) ==
  [index |-> k, to |-> IF o = "bulk" /\ k = b THEN "null" ELSE "jid", kind |-> o,
   outcome |-> "pending"]

\* the Transport's side of the await: the submission in flight is accepted
\* (a receipt comes back) or rejected (sendMessage throws)
Settle(lg, ok) ==
  [lg EXCEPT ![Len(lg)].outcome = IF ok THEN "accepted" ELSE "rejected"]

\* a request that ends before any await leaves no loop state behind
Respond(r) ==
  /\ pc' = "done"
  /\ resp' = r
  /\ sendOpen' = FALSE

\* head of the loop at item k with the lists as they stand: the album's
\* kind check, the submission of item k, or the aggregate response
Iterate(k, rs, es, ps, lg) ==
  /\ results' = rs
  /\ errors' = es
  /\ pauses' = ps
  /\ i' = k
  /\ IF op' \notin SingleOps /\ k > n'
       THEN /\ Respond(Aggregate(op', rs, es))
            /\ log' = lg
       ELSE IF op' = "album" /\ k = bad'
         THEN /\ Respond(Reject(400, "InvalidIntent"))
              /\ log' = lg
         ELSE /\ pc' = "awaitSend"
              /\ resp' = NoResp
              /\ sendOpen' = (sock = "open")
              /\ log' = Append(lg, Submission(op', k, bad'))

\* a send request arrives and runs up to its first await
Request(o, len, b, f) ==
  /\ listening
  /\ pc \in {"idle", "done"}
  /\ b \in 0..len
  /\ o = "text" => len = 1 /\ b = 0
  /\ op' = o /\ n' = len /\ bad' = b /\ fieldsOk' = f /\ body' = NoBody
  /\ IF ~gateOpen(isConnected)
       THEN /\ Respond(Reject(400, "NotConnected"))
            /\ i' = 0 /\ results' = <<>> /\ errors' = <<>> /\ pauses' = 0
            /\ log' = <<>>
       ELSE IF validate(o, len, f) # ""
         THEN /\ Respond(Reject(400, validate(o, len, f)))
              /\ i' = 0 /\ results' = <<>> /\ errors' = <<>> /\ pauses' = 0
              /\ log' = <<>>
         ELSE Iterate(1, <<>>, <<>>, 0, <<>>)
  /\ UNCHANGED sessionVars

\* a location or button request arrives and runs up to its first await
IntentRequest(o, b) ==
  /\ listening
  /\ pc \in {"idle", "done"}
  /\ op' = o /\ n' = 1 /\ bad' = 0 /\ fieldsOk' = TRUE /\ body' = b
  /\ IF ~gateOpen(isConnected)
       THEN /\ Respond(Reject(400, "NotConnected"))
            /\ i' = 0 /\ results' = <<>> /\ errors' = <<>> /\ pauses' = 0
            /\ log' = <<>>
       ELSE IF validateIntent(o, b) # ""
         THEN /\ Respond(Reject(400, validateIntent(o, b)))
              /\ i' = 0 /\ results' = <<>> /\ errors' = <<>> /\ pauses' = 0
              /\ log' = <<>>
         ELSE Iterate(1, <<>>, <<>>, 0, <<>>)
  /\ UNCHANGED sessionVars

\* await sock.sendMessage(...) resumes: the receipt (ok) or the thrown error
SendReturn(ok) ==
  /\ pc = "awaitSend"
  /\ op # "catalog"
  /\ ok => sendOpen /\ log[Len(log)].to = "jid"
  /\ UNCHANGED <<op, n, bad, fieldsOk, body>>
  /\ IF op \in SingleOps
       THEN /\ Respond(IF ok THEN Accepted(receiptOf(Len(log)), 0)
                             ELSE Reject(500, "SendFailed"))
            /\ log' = Settle(log, ok)
            /\ UNCHANGED <<i, results, errors, pauses>>
       ELSE IF ok
         THEN LET rs == pushSent(results, i)
              IN IF pauseAfter(i, n)
                   THEN /\ pc' = "pause"
                        /\ results' = rs
                        /\ pauses' = pauses + 1
                        /\ sendOpen' = FALSE
                        /\ log' = Settle(log, ok)
                        /\ UNCHANGED <<i, errors, resp>>
                   ELSE Iterate(nextIndex(i), rs, errors, pauses, Settle(log, ok))
         ELSE IF op = "bulk"
           THEN Iterate(nextIndex(i), results, pushError(errors, i), pauses,
                        Settle(log, ok))
           ELSE Iterate(nextIndex(i), pushError(results, i), errors, pauses,
                        Settle(log, ok))
  /\ UNCHANGED sessionVars

\* ------------------------------------------------- POST /api/send/catalog
\* the payload of the k-th submission of a catalog request of len products:
\* the rich product message first for a single product, plain text otherwise
CatalogSubmission(len, k) ==
  [index |-> k, to |-> "jid",
   kind |-> IF len = 1 /\ k = 1 THEN "product" ELSE "text",
   outcome |-> "pending"]

\* the catalog request arrives and runs up to await sock.onWhatsApp(...)
CatalogRequest(len, f) ==
  /\ listening
  /\ pc \in {"idle", "done"}
  /\ op' = "catalog" /\ n' = len /\ bad' = 0 /\ fieldsOk' = f /\ body' = NoBody
  /\ i' = 0 /\ results' = <<>> /\ errors' = <<>> /\ pauses' = 0 /\ log' = <<>>
  /\ IF ~gateOpen(isConnected)
       THEN Respond(Reject(400, "NotConnected"))
       ELSE IF ~f
         THEN Respond(Reject(400, "InvalidIntent"))
         ELSE /\ pc' = "awaitCheck"
              /\ resp' = NoResp
              /\ sendOpen' = (sock = "open")
  /\ UNCHANGED sessionVars

\* await sock.onWhatsApp(...) resumes: the number exists, does not exist,
\* or the query threw (caught and ignored); then the first submission
CheckReturn(outcome) ==
  /\ pc = "awaitCheck"
  /\ outcome # "threw" => sendOpen
  /\ UNCHANGED <<op, n, bad, fieldsOk, body, i, results, errors, pauses>>
  /\ IF outcome = "missing"
       THEN /\ Respond(Reject(400, "NotOnWhatsApp"))
            /\ UNCHANGED log
       ELSE /\ pc' = "awaitSend"
            /\ resp' = NoResp
            /\ sendOpen' = (sock = "open")
            /\ log' = <<CatalogSubmission(n, 1)>>
  /\ UNCHANGED sessionVars

\* variant: the fallback answer does not carry the reason of the rich attempt
fallbackAnswerPlain(lg) == Accepted(receiptOf(Len(lg)), 0)

\* res.json of the fallback branch: fallbackReason: imageError.message
fallbackAnswer(lg) == Accepted(receiptOf(Len(lg)), reasonOf(1))

\* the outer catch: error: 'Failed to send catalog: ' + error.message
catalogFailure(lg) == [Reject(500, "SendFailed") EXCEPT !.detail = reasonOf(Len(lg))]

\* await sock.sendMessage(...) of the catalog handler resumes
CatalogReturn(ok) ==
  /\ pc = "awaitSend"
  /\ op = "catalog"
  /\ ok => sendOpen
  /\ UNCHANGED <<op, n, bad, fieldsOk, body, i, results, errors, pauses>>
  /\ IF ok
       THEN /\ log' = Settle(log, ok)
            /\ Respond(IF n = 1 /\ Len(log) = 2
                         THEN fallbackAnswer(log)
                         ELSE Accepted(receiptOf(Len(log)), 0))
       ELSE IF n = 1 /\ Len(log) = 1
         THEN /\ log' = Append(Settle(log, ok), CatalogSubmission(n, 2))
              /\ sendOpen' = (sock = "open")
              /\ UNCHANGED <<pc, resp>>
         ELSE /\ log' = Settle(log, ok)
              /\ Respond(catalogFailure(log))
  /\ UNCHANGED sessionVars

\* await sock.sendMessage(...) of the catalog handler resumes with a result
\* the lines after it cannot use (result.key.id of undefined, a result that
\* JSON.stringify or res.json cannot serialise): the submission was
\* accepted, and the throw goes to the catch that encloses the await
noReceipt(lg) == [lg EXCEPT ![Len(lg)].outcome = "acceptedNoReceipt"]

CatalogReturnNoReceipt ==
  /\ pc = "awaitSend"
  /\ op = "catalog"
  /\ sendOpen
  /\ UNCHANGED <<op, n, bad, fieldsOk, body, i, results, errors, pauses>>
  /\ IF n = 1 /\ Len(log) = 1
       THEN /\ log' = Append(noReceipt(log), CatalogSubmission(n, 2))
            /\ sendOpen' = (sock = "open")
            /\ UNCHANGED <<pc, resp>>
       ELSE /\ log' = noReceipt(log)
            /\ Respond(catalogFailure(log))
  /\ UNCHANGED sessionVars

\* the pacing timer resolves: the loop goes on with the next item
PauseEnd ==
  /\ pc = "pause"
  /\ UNCHANGED <<op, n, bad, fieldsOk, body>>
  /\ Iterate(nextIndex(i), results, errors, pauses, log)
  /\ UNCHANGED sessionVars

\* ------------------------------------------------------- POST /api/logout
\* if (sock) await sock.logout(): the request runs up to the await, or, with
\* no instance, to the response
LogoutRequest ==
  /\ listening
  /\ pc \in {"idle", "done"}
  /\ op' = "logout" /\ n' = 0 /\ bad' = 0 /\ fieldsOk' = TRUE /\ body' = NoBody
  /\ i' = 0 /\ results' = <<>> /\ errors' = <<>> /\ pauses' = 0 /\ log' = <<>>
  /\ IF sock = "null"
       THEN /\ isConnected' = FALSE
            /\ connectionState' = "disconnected"
            /\ Respond(Done200)
       ELSE /\ pc' = "awaitLogout"
            /\ resp' = NoResp
            /\ sendOpen' = FALSE
            /\ UNCHANGED <<isConnected, connectionState>>
  /\ UNCHANGED <<sock, stale, qr, reconnectAttempts, timers, inits, listening>>

\* await sock.logout() resumes.  ok: the Transport ended the instance with
\* reason loggedOut (a live instance emits its close update, handled as any
\* other), then isConnected = false and connectionState = 'disconnected';
\* otherwise the call threw and the handler answers 500
LogoutReturn(ok) ==
  /\ pc = "awaitLogout"
  /\ UNCHANGED <<op, n, bad, fieldsOk, i, results, errors, pauses, log, body>>
  /\ IF ok
       THEN /\ IF sock \in LivePhases
                 THEN LET u == [connection |-> "close", newQr |-> 0,
                                reason |-> loggedOut]
                      IN /\ qr' = qrAfter(u.connection, u.newQr, qr)
                         /\ reconnectAttempts' =
                              attemptsAfter(u.connection, u.reason, reconnectAttempts)
                         /\ timers' = timers + Cardinality(
                              scheduled(u.connection, u.reason, reconnectAttempts))
                         /\ sock' = "closed"
                 ELSE UNCHANGED <<qr, reconnectAttempts, timers, sock>>
            /\ isConnected' = FALSE
            /\ connectionState' = "disconnected"
            /\ Respond(Done200)
       ELSE /\ Respond(Reject(500, "LogoutFailed"))
            /\ UNCHANGED <<sock, qr, isConnected, connectionState,
                           reconnectAttempts, timers>>
  /\ UNCHANGED <<stale, inits, listening>>

\* ------------------------------- GET /api/health, /api/status, /api/qr
\* variant: hasQR is reported from the connection flag
statusAnswerGuessed(c, st, q) ==
  [Done200 EXCEPT !.connected = c, !.state = st, !.hasQR = ~c]

\* res.json({connected: isConnected, connectionState, hasQR: !!qr})
statusAnswer(c, st, q) ==
  [Done200 EXCEPT !.connected = c, !.state = st, !.hasQR = (q # 0)]

\* res.json({status: 'ok', connection: connectionState, connected: isConnected})
healthAnswer(c, st) == [Done200 EXCEPT !.connected = c, !.state = st]

\* a request that touches no loop state
NoLoop ==
  /\ n' = 0 /\ bad' = 0 /\ fieldsOk' = TRUE /\ body' = NoBody
  /\ i' = 0 /\ results' = <<>> /\ errors' = <<>> /\ pauses' = 0

\* the status and the health handler run to their answer in one step
StatusRequest ==
  /\ listening
  /\ pc \in {"idle", "done"}
  /\ op' = "status" /\ NoLoop /\ log' = <<>>
  /\ Respond(statusAnswer(isConnected, connectionState, qr))
  /\ UNCHANGED sessionVars

HealthRequest ==
  /\ listening
  /\ pc \in {"idle", "done"}
  /\ op' = "health" /\ NoLoop /\ log' = <<>>
  /\ Respond(healthAnswer(isConnected, connectionState))
  /\ UNCHANGED sessionVars

\* if (!qr) return 404; otherwise up to await QRCode.toDataURL(qr)
QrRequest ==
  /\ listening
  /\ pc \in {"idle", "done"}
  /\ op' = "qr" /\ NoLoop /\ log' = <<>>
  /\ IF qr = 0
       THEN Respond(Reject(404, "NoChallenge"))
       ELSE /\ pc' = "awaitQr"
            /\ resp' = NoResp
            /\ sendOpen' = FALSE
  /\ UNCHANGED sessionVars

\* await QRCode.toDataURL(qr) resumes: res.json({qr: qr, qrImage}) reads
\* the global again; a rendering error is answered 500
QrReturn(ok) ==
  /\ pc = "awaitQr"
  /\ UNCHANGED <<op, n, bad, fieldsOk, body, i, results, errors, pauses, log>>
  /\ Respond(IF ok THEN [Done200 EXCEPT !.qr = qr]
                   ELSE Reject(500, "QrFailed"))
  /\ UNCHANGED sessionVars

\* ---------------------------------------------------------- POST /api/pair
defaultCode == "BAILEYS1"

\* variant: the caller's code is ignored
forwardedCodeDefault(customCode) == defaultCode

\* customCode || "BAILEYS1"
forwardedCode(customCode) == IF customCode = "" THEN defaultCode ELSE customCode

\* the call sock.requestPairingCode(phoneNumber, code) as the Transport sees it
PairCall(code) ==
  [index |-> 1, to |-> "phoneNumber", kind |-> "requestPairingCode",
   outcome |-> "pending", code |-> code]

\* the request runs up to await sock.requestPairingCode(...), or to a 400
PairRequest(phoneNumber, customCode) ==
  /\ listening
  /\ pc \in {"idle", "done"}
  /\ op' = "pair" /\ NoLoop
  /\ IF ~phoneNumber
       THEN Respond(Reject(400, "InvalidIntent")) /\ log' = <<>>
       ELSE IF sock = "null"
         THEN Respond(Reject(400, "NotInitialized")) /\ log' = <<>>
         ELSE /\ pc' = "awaitPair"
              /\ resp' = NoResp
              /\ sendOpen' = (sock \in LivePhases)
              /\ log' = <<PairCall(forwardedCode(customCode))>>
  /\ UNCHANGED sessionVars

\* await sock.requestPairingCode(...) resumes with the code, or throws
PairReturn(ok) ==
  /\ pc = "awaitPair"
  /\ ok => sendOpen
  /\ UNCHANGED <<op, n, bad, fieldsOk, body, i, results, errors, pauses>>
  /\ log' = Settle(log, ok)
  /\ Respond(IF ok THEN Done200 ELSE Reject(500, "PairFailed"))
  /\ UNCHANGED sessionVars

\* ------------------------------------------------------------ initial state
\* the module-level initialisers, startServer() has called initializeWhatsApp()
ProgramInit ==
  /\ sock = "null"
  /\ stale = NoStale
  /\ qr = 0
  /\ isConnected = FALSE
  /\ connectionState = "disconnected"
  /\ reconnectAttempts = 0
  /\ timers = 0
  /\ inits = 1
  /\ listening = FALSE
  /\ last = [ev |-> "none", delays |-> {}]
  /\ closeStreak = 0
  /\ op = "idle" /\ pc = "idle" /\ n = 0 /\ bad = 0 /\ fieldsOk = TRUE
  /\ i = 0 /\ results = <<>> /\ errors = <<>> /\ pauses = 0 /\ log = <<>>
  /\ sendOpen = FALSE
  /\ resp = NoResp
  /\ body = NoBody

Init == ProgramInit /\ fn = "none" /\ arg = <<>> /\ out = <<>>

\* ----------------------------------------------- dispatch specification
\* The dispatch handlers read isConnected and sock only.  They run against
\* the lifecycle of the current instance: its connection updates, the
\* reconnect timer and the re-initialisation; the history variables rest.
SessionStep ==
  \/ \E u \in Updates(sock) : CurrentEmits(u)
  \/ OnTimer
  \/ initializeWhatsAppOk

Environment ==
  SessionStep /\ UNCHANGED <<historyVars, requestVars, formatVars>>

\* the batch lengths a request may carry: up to MaxItems, and for an album
\* one more than the cap
Lengths(o) ==
  IF o = "album" THEN 0..MaxItems \cup {albumCap + 1} ELSE 0..MaxItems

SendRequest ==
  \E o \in Ops, b \in 0..MaxItems, f \in BOOLEAN : \E len \in Lengths(o) :
    Request(o, len, b, f) /\ UNCHANGED <<historyVars, formatVars>>

IntentSend ==
  \E o \in {"location", "buttons"} : \E b \in Bodies(o) :
    IntentRequest(o, b) /\ UNCHANGED <<historyVars, formatVars>>

CatalogSend ==
  \E len \in 0..MaxItems, f \in BOOLEAN :
    CatalogRequest(len, f) /\ UNCHANGED <<historyVars, formatVars>>

CatalogCheck ==
  \E outcome \in {"exists", "missing", "threw"} :
    CheckReturn(outcome) /\ UNCHANGED <<historyVars, formatVars>>

CatalogResume == \E ok \in BOOLEAN : CatalogReturn(ok) /\ UNCHANGED <<historyVars, formatVars>>

CatalogResumeNoReceipt == CatalogReturnNoReceipt /\ UNCHANGED <<historyVars, formatVars>>

SendResume == \E ok \in BOOLEAN : SendReturn(ok) /\ UNCHANGED <<historyVars, formatVars>>

PacingResume == PauseEnd /\ UNCHANGED <<historyVars, formatVars>>

DispatchNext ==
  \/ SendRequest
  \/ IntentSend
  \/ CatalogSend
  \/ CatalogCheck
  \/ CatalogResume
  \/ CatalogResumeNoReceipt
  \/ SendResume
  \/ PacingResume
  \/ Environment

DispatchSpec == Init /\ [][DispatchNext]_vars

\* every Transport call and every pacing timer of a running request returns
DispatchLiveSpec ==
  /\ DispatchSpec
  /\ WF_vars(SendResume)
  /\ WF_vars(PacingResume)

\* -------------------------------------------------- control specification
\* The status, health, QR and pairing handlers against the lifecycle of the
\* current instance, initialisation failures included.
ControlEnvironment ==
  /\ SessionStep \/ initializeWhatsAppFail
  /\ UNCHANGED <<historyVars, requestVars, formatVars>>

Status == StatusRequest /\ UNCHANGED <<historyVars, formatVars>>

Health == HealthRequest /\ UNCHANGED <<historyVars, formatVars>>

QrQuery == QrRequest /\ UNCHANGED <<historyVars, formatVars>>

QrResume == \E ok \in BOOLEAN : QrReturn(ok) /\ UNCHANGED <<historyVars, formatVars>>

Pair ==
  \E phoneNumber \in BOOLEAN, customCode \in {"", "MYCODE12"} :
    PairRequest(phoneNumber, customCode) /\ UNCHANGED <<historyVars, formatVars>>

PairResume == \E ok \in BOOLEAN : PairReturn(ok) /\ UNCHANGED <<historyVars, formatVars>>

ControlNext ==
  \/ Status
  \/ Health
  \/ QrQuery
  \/ QrResume
  \/ Pair
  \/ PairResume
  \/ ControlEnvironment

ControlSpec == Init /\ [][ControlNext]_vars

\* ---------------------------------------------- formatting specification
\* The two formatting functions applied to every argument of a bounded set.
RECURSIVE Strings(_, _)
Strings(alphabet, len) ==
  IF len = 0 THEN {<<>>}
  ELSE LET shorter == Strings(alphabet, len - 1)
       IN shorter \cup {Append(str, c) : str \in shorter, c \in alphabet}

\* '+1 234-567-8900'
ExampleId ==
  <<"+", "1", " ", "2", "3", "4", "-", "5", "6", "7", "-", "8", "9", "0", "0">>

\* '12@s.whatsapp.net'
QualifiedId == <<"1", "2">> \o suffix

\* 'ABCD1234'
ExampleCode == <<"A", "B", "C", "D", "1", "2", "3", "4">>

Identifiers ==
  Strings({"1", "2", "+", "@", ":"}, MaxLen) \cup {null, ExampleId, QualifiedId}

Codes == Strings({"A", "1"}, MaxCode) \cup {ExampleCode}

FormatInit ==
  /\ ProgramInit
  /\ \/ fn = "formatWhatsAppId" /\ arg \in Identifiers
     \/ fn = "pairingCode" /\ arg \in Codes
  /\ out = <<>>

\* formatWhatsAppId applied to the argument, then to its own result
FormatId ==
  /\ fn = "formatWhatsAppId"
  /\ Len(out) < 2
  /\ out' = Append(out, formatWhatsAppId(IF out = <<>> THEN arg ELSE out[Len(out)]))
  /\ UNCHANGED <<fn, arg, sessionVars, historyVars, requestVars>>

\* the pairing code of the Transport formatted for the answer
FormatCode ==
  /\ fn = "pairingCode"
  /\ out = <<>>
  /\ out' = <<pairingCode(arg)>>
  /\ UNCHANGED <<fn, arg, sessionVars, historyVars, requestVars>>

FormatNext == FormatId \/ FormatCode

FormatSpec == FormatInit /\ [][FormatNext]_vars

\* ------------------------------------------ session lifecycle specification
\* "logoutAgain" is a logout requested right after a logout that succeeded
Logout ==
  /\ LogoutRequest
  /\ Observe(IF last.ev = "logout" THEN "logoutAgain" ELSE "logoutRequest", {})
  /\ UNCHANGED formatVars

LogoutResume ==
  \E ok \in BOOLEAN :
    /\ LogoutReturn(ok)
    /\ Observe(IF ok THEN "logout" ELSE "logoutFailed", {})
    /\ UNCHANGED formatVars

Next ==
  \/ ConnectionUpdate
  \/ StaleConnectionUpdate
  \/ StreamEnd
  \/ TimerFire
  \/ InitOk
  \/ InitFail
  \/ Logout
  \/ LogoutResume

Spec == Init /\ [][Next]_vars

\* the session on its own: the steps the event loop takes without a client
LiveNext ==
  \/ ConnectionUpdate
  \/ StaleConnectionUpdate
  \/ StreamEnd
  \/ TimerFire
  \/ InitOk
  \/ InitFail

\* timers fire and the awaits of initializeWhatsApp come back
LiveSpec ==
  /\ Init /\ [][LiveNext]_vars
  /\ WF_vars(TimerFire)
  /\ WF_vars(InitOk \/ InitFail)

\* ================================================================ claims
Batch == op \in {"bulk", "album"}

\* every item of the batch has a valid kind (bulk has no kind check)
ValidBatch == op = "bulk" \/ (op = "album" /\ bad = 0)

Completed == pc = "done" /\ resp.status = 200

FailedIndices ==
  {errors[k].index : k \in 1..Len(errors)} \cup
  {results[k].index : k \in {j \in 1..Len(results) : results[j].status = "failed"}}

Increasing(list) ==
  \A j, k \in 1..Len(list) : j < k => list[j].index < list[k].index

\* C1: a send request handled while isConnected is false is answered
\* 400 'WhatsApp not connected' at once and issues no Transport submission.
\* (A handler starts when no request is in progress; the step that starts
\* one is the only step from there that changes the request's variables.)
C1_GateRejects ==
  [][(/\ ~isConnected
      /\ pc \in {"idle", "done"} /\ op' \in Ops
      /\ requestVars' # requestVars) =>
       (pc' = "done" /\ resp' = Reject(400, "NotConnected") /\ log' = <<>>)]_vars

C1_Witness ==
  op = "bulk" /\ n = 2 /\ pc = "done" /\ resp.error = "NotConnected" /\ log = <<>>

\* C2 (as claimed): a Transient close handled below the maximum increments
\* reconnectAttempts by one and schedules one reconnect whose delay is
\* min(1000 * 2^a, 30000) for the counter a before the close.
C2_DelayFromAttemptBefore ==
  [][last'.ev = "closeTransient" =>
       (/\ reconnectAttempts' = reconnectAttempts + 1
        /\ timers' = timers + 1
        /\ last'.delays = {Min(backoffBase * Pow2(reconnectAttempts), backoffCap)})]_vars

\* C3 (as claimed): after maxReconnectAttempts consecutive Transient closes
\* no reconnect timer is pending.
C3_TerminalAfterMaxCloses ==
  closeStreak = maxReconnectAttempts => timers = 0

\* C3 (amended): after maxReconnectAttempts consecutive Transient closes the
\* counter is at the maximum, and while it is there no step schedules a
\* further timer (the ones already pending may still run).
C3_NoNewTimerAtMax ==
  [][/\ closeStreak' = maxReconnectAttempts =>
          reconnectAttempts' = maxReconnectAttempts
     /\ reconnectAttempts = maxReconnectAttempts =>
          timers' <= timers]_vars

C3_Witness ==
  /\ last.ev = "closeExhausted"
  /\ closeStreak = maxReconnectAttempts
  /\ timers = 0 /\ inits = 0

\* no live instance, no timer pending, no initializeWhatsApp in flight
Quiescent == sock \notin LivePhases /\ StaleCount = 0 /\ timers = 0 /\ inits = 0

\* C4: a close with reason loggedOut schedules no timer, enters no
\* initializeWhatsApp, creates no instance and leaves the session not
\* connected, whatever the counter; with nothing else live or pending the
\* session then stays not connected for good.
C4_LoggedOutNoReconnect ==
  [][/\ last'.ev = "closeLoggedOut" =>
          (/\ timers' = timers
           /\ inits' = inits
           /\ sock' # "connecting" \/ sock = "connecting"
           /\ StaleCount' <= StaleCount
           /\ reconnectAttempts' = reconnectAttempts
           /\ ~isConnected'
           /\ connectionState' = "disconnected")
     /\ (Quiescent /\ ~isConnected) => (Quiescent' /\ ~isConnected')]_vars

C4_Witness ==
  last.ev = "closeLoggedOut" /\ reconnectAttempts = 2 /\ ~isConnected /\ Quiescent

\* C5: right after an 'open' update the counter is 0, qr is null,
\* isConnected is true and connectionState is 'connected'.
C5_OpenResets ==
  last.ev = "open" =>
    (reconnectAttempts = 0 /\ qr = 0 /\ isConnected /\ connectionState = "connected")

C5_Witness == last.ev = "open" /\ isConnected /\ timers > 0

\* C6: a Transient close handled below the maximum leads to a run of
\* initializeWhatsApp that reaches makeWASocket (or throws on the way).
C6_EventuallyReinitialized ==
  (last.ev = "closeTransient") ~> (last.ev \in {"initOk", "initFail"})

C6_Witness ==
  last.ev = "initOk" /\ sock = "connecting" /\ reconnectAttempts > 0 /\ closeStreak > 0

\* C7: a bulk request that passed the gate and the validation answers 200
\* only after all N items were submitted, with sent + failed = N.
C7_BulkCounts ==
  (op = "bulk" /\ pc = "done" /\ resp.status # 400) =>
    (/\ resp.status = 200
     /\ Len(log) = n
     /\ resp.sent = Len(results) /\ resp.failed = Len(errors)
     /\ resp.sent + resp.failed = n)

C7_Witness ==
  op = "bulk" /\ Completed /\ n = 2 /\ resp.sent = 1 /\ resp.failed = 1

\* C8: the j-th submission of a batch is item j, item j+1 is submitted only
\* once the outcome of item j is recorded, and the result lists are in
\* input order.
C8_InputOrder ==
  Batch =>
    (/\ \A j \in 1..Len(log) : log[j].index = j
     /\ Len(results) + Len(errors) =
          Len(log) - (IF pc = "awaitSend" THEN 1 ELSE 0)
     /\ Increasing(results) /\ Increasing(errors))

C8_Witness ==
  /\ op = "album" /\ Completed /\ n = 2
  /\ Len(results) = 2 /\ results[1].status = "failed" /\ results[2].status = "sent"

\* C9: a recorded Transport failure of item k never stops the batch: item
\* k+1 is submitted, and the batch ends in the 200 aggregate after N
\* submissions.
C9_FailureDoesNotHalt ==
  (Batch /\ ValidBatch) =>
    (/\ \A k \in FailedIndices : k < n => Len(log) >= k + 1
     /\ (pc = "done" /\ resp.status # 400) => (resp.status = 200 /\ Len(log) = n))

C9_Witness ==
  /\ op = "bulk" /\ Completed /\ n = 2
  /\ Len(errors) = 1 /\ errors[1].index = 1 /\ Len(log) = 2

\* C10 (as claimed): a completed batch of N items had exactly N-1 pacing
\* suspensions, whatever the outcomes of its submissions.
C10_PauseBetweenAll ==
  (Batch /\ Completed) => pauses = n - 1

\* C11: an album request with more than albumCap items, or with none, ends
\* at once with a 400 caller-input error (BatchTooLarge for an oversized
\* album whose fields are present) and no Transport submission.
C11_OversizeRejected ==
  (op = "album" /\ (n > albumCap \/ n = 0)) =>
    (/\ pc = "done" /\ resp.status = 400 /\ log = <<>>
     /\ resp.error \in {"NotConnected", "InvalidIntent", "BatchTooLarge"}
     /\ (resp.error # "NotConnected" /\ fieldsOk /\ n > albumCap) =>
          resp.error = "BatchTooLarge"
     /\ (resp.error # "NotConnected" /\ n = 0) => resp.error = "InvalidIntent")

C11_Witness ==
  /\ op = "album" /\ n = albumCap + 1 /\ pc = "done"
  /\ resp.error = "BatchTooLarge" /\ log = <<>>

\* C12 (as claimed): an album with an item of invalid kind at any position
\* fails with InvalidIntent and has issued no Transport submission.
C12_NoPartialAlbum ==
  (op = "album" /\ bad > 0 /\ pc = "done" /\ resp.error # "NotConnected") =>
    (resp.error \in {"InvalidIntent", "BatchTooLarge"} /\ log = <<>>)

\* a field the spec's validation rejects: a required field missing, a
\* coordinate that is not a number, a button list that is too long
Malformed(b) ==
  \/ b.to = "absent"
  \/ b.lat \in {"absent", "text"} \/ b.lon \in {"absent", "text"}
  \/ b.buttons \in {"absent", "longList"}

\* C13 (as claimed): a location or button intent with a missing required
\* field, a non-numeric coordinate or an oversized button list is rejected
\* with InvalidIntent before any Transport call.
C13_ValidationBeforeTransport ==
  (op \in {"location", "buttons"} /\ Malformed(body)) =>
    (/\ log = <<>>
     /\ pc = "done"
     /\ resp.error \in {"InvalidIntent", "NotConnected"})

SingleProduct == op = "catalog" /\ n = 1

\* C14: a single-product catalog request whose rich submission was rejected
\* issues the text submission next, to the same target, and never a third;
\* when the text one is accepted, the answer is a success with the receipt of the text
\* message and the rejection reason of the rich attempt.
C14_DegradedSuccess ==
  SingleProduct =>
    (/\ Len(log) <= 2
     /\ Len(log) >= 1 => log[1].kind = "product"
     /\ (Len(log) >= 1 /\ log[1].outcome = "rejected") => Len(log) = 2
     /\ Len(log) = 2 => (log[2].kind = "text" /\ log[2].to = log[1].to)
     /\ (Len(log) = 2 /\ log[2].outcome = "accepted") =>
          (/\ pc = "done"
           /\ resp.status = 200 /\ resp.success
           /\ resp.messageId = receiptOf(2)
           /\ resp.fallbackReason = reasonOf(1)))

C14_Witness ==
  /\ SingleProduct /\ pc = "done" /\ resp.success
  /\ Len(log) = 2 /\ log[1].outcome = "rejected" /\ log[2].outcome = "accepted"

\* C15 (as claimed): when the rich and the text submission are both
\* rejected, the answer is the failure of the text attempt and carries the
\* rejection reason of the rich attempt as well.
C15_BothReasonsReported ==
  (/\ SingleProduct /\ Len(log) = 2
   /\ log[1].outcome = "rejected" /\ log[2].outcome = "rejected") =>
    (/\ pc = "done"
     /\ resp.status = 500 /\ ~resp.success
     /\ resp.detail = reasonOf(2)
     /\ resp.fallbackReason = reasonOf(1))

\* the positions of the characters of str that the normalisation keeps
KeptAt(str) == {k \in 1..Len(str) : str[k] \in Digits \cup {"@", ":"}}

\* the position in str of its j-th kept character
KeptPos(str, j) ==
  CHOOSE k \in KeptAt(str) : Cardinality({q \in KeptAt(str) : q < k}) = j - 1

Applied == fn = "formatWhatsAppId" /\ Len(out) >= 1 /\ arg # null /\ arg # <<>>

\* C16: the normal form of a non-empty identifier is its digits, '@' and
\* ':' in their order, followed by '@s.whatsapp.net' exactly when none of
\* them is '@'; '+1 234-567-8900' gives '12345678900@s.whatsapp.net'.
C16_Normalized ==
  Applied =>
    LET kept == Cardinality(KeptAt(arg))
        bare == \A k \in KeptAt(arg) : arg[k] # "@"
    IN /\ Len(out[1]) = kept + (IF bare THEN Len(suffix) ELSE 0)
       /\ \A j \in 1..kept : out[1][j] = arg[KeptPos(arg, j)]
       /\ bare => \A j \in 1..Len(suffix) : out[1][kept + j] = suffix[j]
       /\ arg = ExampleId =>
            out[1] = <<"1", "2", "3", "4", "5", "6", "7", "8", "9", "0", "0">> \o suffix

C16_Witness ==
  /\ Applied /\ arg = ExampleId
  /\ out[1] = <<"1", "2", "3", "4", "5", "6", "7", "8", "9", "0", "0">> \o suffix

\* C17 (as claimed): an already-qualified identifier is left as it is, and
\* normalising a normalised identifier changes nothing.
C17_Idempotent ==
  /\ (Applied /\ arg = QualifiedId) => out[1] = arg
  /\ (fn = "formatWhatsAppId" /\ Len(out) = 2) => out[2] = out[1]

\* C18 (as claimed): a missing or empty target never reaches the Transport:
\* no submission carries the null target, for single-item sends and for
\* every element of a bulk recipient list.
C18_NoNullTarget ==
  /\ (op \in SingleOps /\ (body.to = "absent" \/ ~fieldsOk)) =>
       (log = <<>> /\ pc = "done" /\ resp.status = 400)
  /\ \A j \in 1..Len(log) : log[j].to # "null"

Formatted == fn = "pairingCode" /\ Len(out) = 1

\* C19: a pairing code whose length is a positive multiple of 4 comes back
\* as its groups of four characters, in order, with one hyphen between
\* neighbouring groups; 'ABCD1234' gives 'ABCD-1234'.
C19_GroupsOfFour ==
  (Formatted /\ Len(arg) > 0 /\ Len(arg) % 4 = 0) =>
    (/\ Len(out[1]) = Len(arg) + (Len(arg) \div 4) - 1
     /\ \A p \in 1..Len(out[1]) :
          IF p % 5 = 0 THEN out[1][p] = "-"
                       ELSE out[1][p] = arg[p - (p \div 5)]
     /\ arg = ExampleCode =>
          out[1] = <<"A", "B", "C", "D", "-", "1", "2", "3", "4">>)

C19_Witness ==
  /\ Formatted /\ arg = ExampleCode
  /\ out[1] = <<"A", "B", "C", "D", "-", "1", "2", "3", "4">>

\* C20 (as claimed): a pairing code whose length is not divisible by 4
\* comes back unmodified.
C20_PassThrough ==
  (Formatted /\ Len(arg) % 4 # 0) => out[1] = arg

globals == <<sock, qr, isConnected, connectionState, reconnectAttempts>>

\* C21: a pairing request (with a phone number) handled while sock is null
\* is answered NotInitialized at once, with no Transport call and the
\* session untouched; with an instance it is forwarded once, carrying the
\* caller's code or the default one.
C21_PairNeedsInstance ==
  [][\A phoneNumber \in BOOLEAN, customCode \in {"", "MYCODE12"} :
       PairRequest(phoneNumber, customCode) =>
         (/\ UNCHANGED sessionVars
          /\ (phoneNumber /\ sock = "null") =>
               (/\ pc' = "done" /\ log' = <<>>
                /\ resp' = Reject(400, "NotInitialized"))
          /\ (phoneNumber /\ sock # "null") =>
               (/\ pc' = "awaitPair" /\ Len(log') = 1
                /\ log'[1].kind = "requestPairingCode"
                /\ log'[1].code =
                     (IF customCode = "" THEN "BAILEYS1" ELSE customCode))
          /\ ~phoneNumber => (pc' = "done" /\ log' = <<>> /\ resp'.status = 400))]_vars

C21_Witness ==
  /\ op = "pair" /\ pc = "done" /\ resp.error = "NotInitialized"
  /\ sock = "null" /\ reconnectAttempts > 0 /\ log = <<>>

\* C22: the status, health and QR handlers leave sock, qr, isConnected,
\* connectionState and reconnectAttempts as they are, and the status
\* handler always answers 200 with the current isConnected,
\* connectionState and whether qr is set.
C22_QueriesObserveOnly ==
  [][/\ (Status \/ Health \/ QrQuery \/ QrResume) => UNCHANGED globals
     /\ Status =>
          (/\ pc' = "done" /\ resp'.status = 200
           /\ resp'.connected = isConnected
           /\ resp'.state = connectionState
           /\ resp'.hasQR = (qr # 0))
     /\ (listening /\ pc \in {"idle", "done"}) => ENABLED StatusRequest]_vars

C22_Witness ==
  op = "status" /\ pc = "done" /\ resp.hasQR /\ ~resp.connected /\ qr # 0

\* C23 (as claimed): the QR handler answers NoChallenge exactly when qr is
\* null, and an answer that is not NoChallenge carries the QR value
\* received last.
C23_ChallengeOrNoChallenge ==
  [][/\ QrQuery => ((qr = 0) <=> (pc' = "done" /\ resp'.error = "NoChallenge"))
     /\ (QrResume /\ resp'.status = 200) => (resp'.qr # 0 /\ resp'.qr = qr)]_vars

\* C24 (as claimed): a logout with no instance succeeds, and a logout called
\* again right after a successful one succeeds too and leaves the session
\* as the first call left it.
C24_LogoutIdempotent ==
  [][/\ (Logout /\ sock = "null") => (pc' = "done" /\ resp'.status = 200)
     /\ (last.ev = "logoutAgain" /\ pc' = "done") =>
          (resp'.status = 200 /\ UNCHANGED globals)]_vars

\* C25 (as claimed): right after a successful logout the session is not
\* connected, no challenge is pending, the counter is 0 and there is no
\* Transport instance.
C25_LogoutResets ==
  last.ev = "logout" =>
    (/\ ~isConnected /\ connectionState = "disconnected"
     /\ qr = 0
     /\ reconnectAttempts = 0
     /\ sock = "null")

\* C26: a text, location or button request issues at most one Transport
\* submission; when that submission is rejected the request ends with a
\* 500 answer, with no second submission and no change to the session (no
\* timer, no initializeWhatsApp).
C26_NoInternalRetry ==
  [][/\ op' \in {"text", "location", "buttons"} => Len(log') <= 1
     /\ (op \in {"text", "location", "buttons"} /\ pc = "awaitSend" /\ pc' # pc) =>
          (/\ pc' = "done" /\ op' = op
           /\ Len(log') = 1
           /\ UNCHANGED sessionVars
           /\ log'[1].outcome = "rejected" =>
                (resp'.status = 500 /\ ~resp'.success))]_vars

C26_Witness ==
  /\ op = "text" /\ pc = "done" /\ resp.status = 500
  /\ Len(log) = 1 /\ log[1].outcome = "rejected"
  /\ timers = 0 /\ inits = 0

\* C27 (as claimed): at most one Transport instance is live.
C27_AtMostOneLive ==
  (IF sock \in LivePhases THEN 1 ELSE 0) + StaleCount <= 1

\* C28 (as claimed): at most one reconnect timer is pending, and a close
\* event raises the counter by one at most.
C28_OneTimer ==
  [][/\ timers' <= 1
     /\ last'.ev \in {"closeTransient", "closeExhausted", "closeLoggedOut"} =>
          reconnectAttempts' <= reconnectAttempts + 1]_vars

\* C29 (as claimed): a batch whose session is not connected when a pacing
\* suspension ends submits nothing more and fails with NotConnected.
C29_FailFastAfterDisconnect ==
  [][(Batch /\ pc = "pause" /\ ~isConnected /\ pc' # pc) =>
       (log' = log /\ pc' = "done" /\ resp'.error = "NotConnected")]_vars

\* C30 (as claimed): once a logout has succeeded, no timer callback enters
\* initializeWhatsApp and no initializeWhatsApp runs, until another request.
C30_LogoutIsFinal ==
  [][(op = "logout" /\ pc = "done" /\ resp.status = 200) =>
       last'.ev \notin {"timer", "streamEnd", "initOk", "initFail"}]_vars

\* C31 (as claimed): a pairing code obtained while the session is not
\* connected leaves a pending challenge, so that the status reports hasQR.
C31_PairingCreatesChallenge ==
  [][(/\ op = "pair" /\ pc = "awaitPair"
      /\ pc' = "done" /\ resp'.status = 200
      /\ ~isConnected') =>
       statusAnswer(isConnected', connectionState', qr').hasQR]_vars

\* C32 (as claimed): whatever await sock.onWhatsApp(...) gives, the catalog
\* request goes on to its first Transport submission.
C32_CheckIsAdvisory ==
  [][(op = "catalog" /\ pc = "awaitCheck" /\ pc' # pc) =>
       (pc' = "awaitSend" /\ Len(log') = 1 /\ log'[1].outcome = "pending")]_vars

\* a batch whose loop is under way: a submission or a pacing pause is pending
Dispatching == Batch /\ pc \in {"awaitSend", "pause"}

\* the aggregate answer of a batch that attempted each of its n items once
AllAttempted ==
  /\ Batch /\ Completed
  /\ Len(log) = n
  /\ \A k \in 1..n : log[k].index = k /\ log[k].outcome # "pending"
  /\ Len(results) + Len(errors) = n

\* C33 (as claimed): a bulk or album batch that has started dispatching ends
\* only with its aggregate answer, every item attempted exactly once, and
\* does end when the Transport calls and the pacing timers return.
C33_BatchCompletes ==
  /\ [][(Dispatching /\ pc' = "done") => AllAttempted']_vars
  /\ Dispatching ~> AllAttempted

\* C33, for the batches whose items all have a valid kind: what holds.
C33_ValidBatchCompletes ==
  /\ [][(Dispatching /\ ValidBatch /\ pc' = "done") => AllAttempted']_vars
  /\ (Dispatching /\ ValidBatch) ~> AllAttempted

\* C34 (as claimed): a location intent with a target and two numeric
\* coordinates, 0 included, that passed the gate is submitted exactly once.
C34_ZeroCoordinatesAccepted ==
  (/\ op = "location" /\ body.to = "raw"
   /\ body.lat \in {"zero", "numeric"} /\ body.lon \in {"zero", "numeric"}
   /\ resp.error # "NotConnected") =>
    (Len(log) = 1 /\ log[1].kind = "location")

\* C35: reconnectAttempts stays within 0..maxReconnectAttempts, whatever
\* closes, initialization failures, stream ends, opens and logouts happen.
C35_CounterInRange ==
  reconnectAttempts \in 0..maxReconnectAttempts

C35_Witness ==
  /\ last.ev = "initFail"
  /\ reconnectAttempts = maxReconnectAttempts
  /\ timers = 0 /\ inits = 0

\* C36 (as claimed): isConnected holds exactly when connectionState is
\* 'connected', and connectionState is one of the three state names.
C36_SnapshotConsistent ==
  /\ isConnected <=> connectionState = "connected"
  /\ connectionState \in {"disconnected", "connecting", "connected"}

\* C37 (as claimed): while isConnected is true qr is null, so the status
\* never reports connected together with hasQR.
C37_ConnectedHasNoChallenge ==
  isConnected =>
    (qr = 0 /\ ~statusAnswer(isConnected, connectionState, qr).hasQR)

\* C38 (as claimed): a connection.update of an instance that was replaced
\* changes none of isConnected, connectionState, qr and reconnectAttempts
\* and schedules no reconnect.
C38_StaleEventsIgnored ==
  [][StaleConnectionUpdate =>
       UNCHANGED <<isConnected, connectionState, qr, reconnectAttempts, timers>>]_vars

\* the submissions of the request that the Transport accepted
AcceptedAt ==
  {k \in 1..Len(log) : log[k].outcome \in {"accepted", "acceptedNoReceipt"}}

\* C39 (as claimed): a single-product catalog request has at most one
\* accepted submission, and its text submission follows a rejected rich
\* submission only.
C39_NoDoubleSend ==
  SingleProduct =>
    (/\ Cardinality(AcceptedAt) <= 1
     /\ Len(log) = 2 => log[1].outcome = "rejected")

====
